---- MODULE Spec2Model ----
(***************************************************************************)
(* A model of src/main.rs: a small HTTP/1.1 server.  The listener accepts  *)
(* connections; each connection is handled by its own task, which parses   *)
(* one request, routes it, and sends one response.                         *)
(*                                                                         *)
(* Data on the wire and on disk is a sequence of bytes.  A byte is written *)
(* as a one-character string; three bytes outside ASCII are named:         *)
(*   "xC3" "xA9"  the two bytes of the UTF-8 encoding of U+00E9,           *)
(*   "xFF"        a byte that occurs in no valid UTF-8 text,               *)
(* and "NUL" is the zero byte.                                             *)
(***************************************************************************)
EXTENDS Integers, Sequences, FiniteSets, TLC

(***************************************************************************)
(* Bounds of the model.                                                    *)
(***************************************************************************)
\* Number of connections the listener accepts in a run.
MaxConn == 2

Conns == 1..MaxConn

(***************************************************************************)
(* Bytes and text.                                                         *)
(***************************************************************************)
SP == " "
CR == "\r"
LF == "\n"
CRLF == <<CR, LF>>

\* char::is_whitespace, on the bytes of the model.
IsWhitespace(b) == b \in {" ", "\t", "\r", "\n"}

\* std::str::from_utf8 succeeds: every lead byte xC3 is followed by the
\* continuation byte xA9, no continuation byte stands alone, no xFF.
IsUtf8(s) ==
    \A i \in 1..Len(s) :
        /\ s[i] # "xFF"
        /\ (s[i] = "xC3") => (i < Len(s) /\ s[i + 1] = "xA9")
        /\ (s[i] = "xA9") => (i > 1 /\ s[i - 1] = "xC3")

\* str::to_lowercase, byte by byte.
LowerByte(b) ==
    CASE b = "A" -> "a" [] b = "B" -> "b" [] b = "C" -> "c" [] b = "D" -> "d"
      [] b = "E" -> "e" [] b = "F" -> "f" [] b = "G" -> "g" [] b = "H" -> "h"
      [] b = "I" -> "i" [] b = "J" -> "j" [] b = "K" -> "k" [] b = "L" -> "l"
      [] b = "M" -> "m" [] b = "N" -> "n" [] b = "O" -> "o" [] b = "P" -> "p"
      [] b = "Q" -> "q" [] b = "R" -> "r" [] b = "S" -> "s" [] b = "T" -> "t"
      [] b = "U" -> "u" [] b = "V" -> "v" [] b = "W" -> "w" [] b = "X" -> "x"
      [] b = "Y" -> "y" [] b = "Z" -> "z" [] OTHER -> b

ToLower(s) == [i \in 1..Len(s) |-> LowerByte(s[i])]

\* str::starts_with
StartsWith(s, p) == Len(s) >= Len(p) /\ SubSeq(s, 1, Len(p)) = p

\* A faulty variant of StripPrefix: what follows the last '/' is kept.
RECURSIVE StripToLastSegment(_, _)
StripToLastSegment(s, p) ==
    IF \E i \in 1..Len(s) : s[i] = "/" THEN StripToLastSegment(Tail(s), p) ELSE s

\* str::strip_prefix, for a string that starts with the prefix.
StripPrefix(s, p) == SubSeq(s, Len(p) + 1, Len(s))

\* Position of the first occurrence of pattern p in s at or after index i, 0 if none.
RECURSIVE FindFrom(_, _, _)
FindFrom(s, p, i) ==
    IF i + Len(p) - 1 > Len(s) THEN 0
    ELSE IF SubSeq(s, i, i + Len(p) - 1) = p THEN i
    ELSE FindFrom(s, p, i + 1)

Find(s, p) == FindFrom(s, p, 1)

\* str::trim: whitespace removed at both ends.
RECURSIVE TrimStart(_)
TrimStart(s) ==
    IF s # <<>> /\ IsWhitespace(Head(s)) THEN TrimStart(Tail(s)) ELSE s

RECURSIVE TrimEnd(_)
TrimEnd(s) ==
    IF s # <<>> /\ IsWhitespace(s[Len(s)]) THEN TrimEnd(SubSeq(s, 1, Len(s) - 1)) ELSE s

Trim(s) == TrimEnd(TrimStart(s))

\* A faulty variant of Split: the pieces are trimmed.
RECURSIVE SplitTrimmed(_, _)
SplitTrimmed(s, sep) ==
    LET i == Find(s, <<sep>>)
    IN  IF i = 0 THEN <<Trim(s)>>
        ELSE <<Trim(SubSeq(s, 1, i - 1))>> \o SplitTrimmed(SubSeq(s, i + 1, Len(s)), sep)

\* str::split(','): the pieces between the separators, empty pieces kept.
RECURSIVE Split(_, _)
Split(s, sep) ==
    LET i == Find(s, <<sep>>)
    IN  IF i = 0 THEN <<s>>
        ELSE <<SubSeq(s, 1, i - 1)>> \o Split(SubSeq(s, i + 1, Len(s)), sep)

\* str::split_whitespace: the maximal runs of bytes that are not whitespace.
RECURSIVE SplitWhitespaceAcc(_, _, _)
SplitWhitespaceAcc(s, cur, acc) ==
    IF s = <<>> THEN (IF cur = <<>> THEN acc ELSE Append(acc, cur))
    ELSE IF IsWhitespace(Head(s))
         THEN SplitWhitespaceAcc(Tail(s), <<>>, IF cur = <<>> THEN acc ELSE Append(acc, cur))
         ELSE SplitWhitespaceAcc(Tail(s), Append(cur, Head(s)), acc)

SplitWhitespace(s) == SplitWhitespaceAcc(s, <<>>, <<>>)

\* str::split_once(": "): the text before and after the first ": ", if there is one.
SplitOnce(s, sep) ==
    LET i == Find(s, sep)
    IN  IF i = 0 THEN [found |-> FALSE, name |-> <<>>, value |-> <<>>]
        ELSE [found |-> TRUE,
              name  |-> SubSeq(s, 1, i - 1),
              value |-> SubSeq(s, i + Len(sep), Len(s))]

Digits == <<"0", "1", "2", "3", "4", "5", "6", "7", "8", "9">>
IsDigit(b) == \E d \in 1..10 : Digits[d] = b
DigitValue(b) == (CHOOSE d \in 1..10 : Digits[d] = b) - 1

\* Display of a usize in decimal, as format!("{}", n) writes it.
RECURSIVE ToDecimal(_)
ToDecimal(n) ==
    IF n < 10 THEN <<Digits[n + 1]>>
    ELSE ToDecimal(n \div 10) \o <<Digits[(n % 10) + 1]>>

RECURSIVE DecimalValue(_, _)
DecimalValue(s, acc) ==
    IF s = <<>> THEN acc ELSE DecimalValue(Tail(s), 10 * acc + DigitValue(Head(s)))

\* str::parse::<usize>().unwrap_or(0): an optional '+' and at least one digit;
\* anything else is 0.  (The values of the model are far below usize::MAX.)
ParseUsizeOr0(s) ==
    LET d == IF s # <<>> /\ Head(s) = "+" THEN Tail(s) ELSE s
    IN  IF d # <<>> /\ \A i \in 1..Len(d) : IsDigit(d[i]) THEN DecimalValue(d, 0) ELSE 0

(***************************************************************************)
(* Texts the program names.                                                *)
(***************************************************************************)
UserAgent == <<"U", "s", "e", "r", "-", "A", "g", "e", "n", "t">>
ContentLength == <<"C", "o", "n", "t", "e", "n", "t", "-", "L", "e", "n", "g", "t", "h">>
AcceptEncoding ==
    <<"A", "c", "c", "e", "p", "t", "-", "E", "n", "c", "o", "d", "i", "n", "g">>
ContentEncoding ==
    <<"C", "o", "n", "t", "e", "n", "t", "-", "E", "n", "c", "o", "d", "i", "n", "g">>
ContentType == <<"C", "o", "n", "t", "e", "n", "t", "-", "T", "y", "p", "e">>
Gzip == <<"g", "z", "i", "p">>
TextPlain == <<"t", "e", "x", "t", "/", "p", "l", "a", "i", "n">>
OctetStream ==
    <<"a", "p", "p", "l", "i", "c", "a", "t", "i", "o", "n", "/",
      "o", "c", "t", "e", "t", "-", "s", "t", "r", "e", "a", "m">>
RootPath == <<"/">>
UserAgentPath == <<"/", "u", "s", "e", "r", "-", "a", "g", "e", "n", "t">>
EchoPrefix == <<"/", "e", "c", "h", "o", "/">>
FilesPrefix == <<"/", "f", "i", "l", "e", "s", "/">>
HeaderSep == <<":", " ">>
Http11 == <<"H", "T", "T", "P", "/", "1", ".", "1">>
FailedToRead ==
    <<"f", "a", "i", "l", "e", "d", " ", "t", "o", " ", "r", "e", "a", "d", " ",
      "f", "i", "l", "e", ":", " ">>

(***************************************************************************)
(* HashMap<String, String>: a function from keys to values.                *)
(***************************************************************************)
EmptyMap == [k \in {} |-> <<>>]
\* A faulty variant of MapInsert: the value of a key that is present is kept.
MapInsertKeepFirst(h, k, v) ==
    [x \in (DOMAIN h) \cup {k} |-> IF x \in DOMAIN h THEN h[x] ELSE v]

\* HashMap::insert
MapInsert(h, k, v) == [x \in (DOMAIN h) \cup {k} |-> IF x = k THEN v ELSE h[x]]
MapHas(h, k) == k \in DOMAIN h
\* HashMap::get(k).cloned().unwrap_or_default()
MapGetOrEmpty(h, k) == IF MapHas(h, k) THEN h[k] ELSE <<>>

(***************************************************************************)
(* Request::parse.                                                         *)
(***************************************************************************)
\* Method::from: the token lower-cased is one of get, post, put; anything
\* else panics ("unknown").
MethodFrom(tok) ==
    LET l == ToLower(tok)
    IN  CASE l = <<"g", "e", "t">> -> "Get"
          [] l = <<"p", "o", "s", "t">> -> "Post"
          [] l = <<"p", "u", "t">> -> "Put"
          [] OTHER -> "unknown"

\* BufReader::read_line: the bytes up to and including the first LF, or all
\* that is left at end of input; the bytes are consumed either way, and the
\* call fails when they are not UTF-8.
ReadLine(s) ==
    LET i == Find(s, <<LF>>)
        n == IF i = 0 THEN Len(s) ELSE i
    IN  [ok   |-> IsUtf8(SubSeq(s, 1, n)),
         n    |-> n,
         line |-> SubSeq(s, 1, n),
         rest |-> SubSeq(s, n + 1, Len(s))]

\* A faulty variant of ReadHeaders: end of input before the blank line is
\* taken for an invalid header line.
RECURSIVE ReadHeadersStrict(_, _)
ReadHeadersStrict(s, headers) ==
    LET r == ReadLine(s)
    IN  IF ~r.ok \/ r.line = CRLF
        THEN [panic |-> FALSE, headers |-> headers, rest |-> r.rest]
        ELSE LET kv == SplitOnce(r.line, HeaderSep)
             IN  IF ~kv.found
                 THEN [panic |-> TRUE, headers |-> headers, rest |-> r.rest]
                 ELSE ReadHeadersStrict(r.rest, MapInsert(headers, kv.name, Trim(kv.value)))

\* The header loop: it ends at a failed read, at end of input, or at the
\* line CRLF; a line without ": " panics; a repeated name overwrites.
RECURSIVE ReadHeaders(_, _)
ReadHeaders(s, headers) ==
    LET r == ReadLine(s)
    IN  IF ~r.ok \/ r.n = 0 \/ r.line = CRLF
        THEN [panic |-> FALSE, headers |-> headers, rest |-> r.rest]
        ELSE LET kv == SplitOnce(r.line, HeaderSep)
             IN  IF ~kv.found
                 THEN [panic |-> TRUE, headers |-> headers, rest |-> r.rest]
                 ELSE ReadHeaders(r.rest, MapInsert(headers, kv.name, Trim(kv.value)))

NoRequest == [method |-> "none", path |-> <<>>, headers |-> EmptyMap, body |-> <<>>]

\* A faulty variant of ReadBody: the body is read whatever the method is.
ReadBodyAnyMethod(method, headers, s) ==
    LET payload_size ==
            IF MapHas(headers, ContentLength)
            THEN ParseUsizeOr0(headers[ContentLength]) ELSE 0
    IN  IF Len(s) < payload_size
        THEN [ok |-> FALSE, body |-> <<>>, rest |-> <<>>]
        ELSE [ok |-> TRUE, body |-> SubSeq(s, 1, payload_size),
              rest |-> SubSeq(s, payload_size + 1, Len(s))]

\* The body: read only for POST and PUT, Content-Length bytes of it (0 when
\* the header is missing or is no number); read_exact fails on a short stream.
ReadBody(method, headers, s) ==
    IF method \in {"Post", "Put"}
    THEN LET payload_size ==
                 IF MapHas(headers, ContentLength)
                 THEN ParseUsizeOr0(headers[ContentLength]) ELSE 0
         IN  IF Len(s) < payload_size
             THEN [ok |-> FALSE, body |-> <<>>, rest |-> <<>>]
             ELSE [ok |-> TRUE, body |-> SubSeq(s, 1, payload_size),
                   rest |-> SubSeq(s, payload_size + 1, Len(s))]
    ELSE [ok |-> TRUE, body |-> <<>>, rest |-> s]

\* Request::parse on the bytes s that the client sent before closing its
\* side: outcome "ok" with the request, "err" (an Err returned), or "panic".
\* rest is what the parse left unread.
Parse(s) ==
    LET first == ReadLine(s)
        toks  == SplitWhitespace(first.line)
        Fail(kind, rest) == [outcome |-> kind, req |-> NoRequest, rest |-> rest]
    IN  IF ~first.ok THEN Fail("err", first.rest)
        ELSE IF Len(toks) # 3 THEN Fail("panic", first.rest)
        ELSE IF MethodFrom(toks[1]) = "unknown" THEN Fail("panic", first.rest)
        ELSE LET method == MethodFrom(toks[1])
                 h == ReadHeaders(first.rest, EmptyMap)
             IN  IF h.panic THEN Fail("panic", h.rest)
                 ELSE LET b == ReadBody(method, h.headers, h.rest)
                      IN  IF ~b.ok THEN Fail("err", b.rest)
                          ELSE [outcome |-> "ok",
                                req |-> [method |-> method, path |-> toks[2],
                                         headers |-> h.headers, body |-> b.body],
                                rest |-> b.rest]

\* Request::supported_encodings
SupportedEncodings(req) ==
    IF MapHas(req.headers, AcceptEncoding)
    THEN Split(req.headers[AcceptEncoding], ",") ELSE <<>>

SeqContains(seq, x) == \E i \in 1..Len(seq) : seq[i] = x

(***************************************************************************)
(* Response.                                                               *)
(***************************************************************************)
NoResponse == [status |-> 0, headers |-> EmptyMap, body |-> <<>>]

\* Response::new(..).status(st), then .header(k, v) and .body(b) as chained.
NewResponse(st) == [status |-> st, headers |-> EmptyMap, body |-> <<>>]
WithHeader(r, k, v) == [r EXCEPT !.headers = MapInsert(r.headers, k, v)]
WithBody(r, b) == [r EXCEPT !.body = b]

KnownStatus == {200, 201, 400, 404, 500}

\* The match on self.status in send(); any other status panics.
StatusText(st) ==
    CASE st = 200 -> <<"2", "0", "0", " ", "O", "K">>
      [] st = 201 -> <<"2", "0", "1", " ", "C", "r", "e", "a", "t", "e", "d">>
      [] st = 400 -> <<"4", "0", "0", " ", "B", "a", "d", " ", "R", "e", "q", "u", "e", "s", "t">>
      [] st = 404 -> <<"4", "0", "4", " ", "N", "o", "t", " ", "F", "o", "u", "n", "d">>
      [] st = 500 -> <<"5", "0", "0", " ", "I", "n", "t", "e", "r", "n", "a", "l", " ",
                       "S", "e", "r", "v", "e", "r", " ", "E", "r", "r", "o", "r">>

StatusLine(st) == Http11 \o <<SP>> \o StatusText(st) \o CRLF

HeaderLine(name, value) == name \o HeaderSep \o value \o CRLF

\* Response::append_own_headers: Content-Encoding: gzip is inserted when the
\* request's encodings contain "gzip" and the response names none itself.
AppendOwnHeaders(r, req) ==
    IF SeqContains(SupportedEncodings(req), Gzip) /\ ~MapHas(r.headers, ContentEncoding)
    THEN WithHeader(r, ContentEncoding, Gzip)
    ELSE r

\* A faulty variant of BodyLen: the characters are counted, not the bytes.
BodyLenChars(body) == Cardinality({i \in DOMAIN body : body[i] # "xA9"})

\* body.len(): the number of bytes of the body.
BodyLen(body) == Len(body)

\* The Content-Length line and the blank line that send() writes in one chunk.
LengthChunk(body) == ContentLength \o HeaderSep \o ToDecimal(BodyLen(body)) \o CRLF \o CRLF

\* The orders in which a HashMap may iterate over the keys in S.
Orders(S) ==
    {o \in [1..Cardinality(S) -> S] : \A i, j \in DOMAIN o : i # j => o[i] # o[j]}

\* A faulty variant of SendChunks: the header loop stops after the first
\* header the map yields.
SendChunksFirstHeader(r, order) ==
    <<StatusLine(r.status)>>
    \o [i \in {j \in DOMAIN order : j = 1} |-> HeaderLine(order[i], r.headers[order[i]])]
    \o <<LengthChunk(r.body)>>
    \o (IF r.body # <<>> THEN <<r.body>> ELSE <<>>)

\* A faulty variant of SendChunks: the blank line is written before the
\* Content-Length line.
SendChunksBlankFirst(r, order) ==
    <<StatusLine(r.status)>>
    \o [i \in DOMAIN order |-> HeaderLine(order[i], r.headers[order[i]])]
    \o <<CRLF \o ContentLength \o HeaderSep \o ToDecimal(Len(r.body)) \o CRLF>>
    \o (IF r.body # <<>> THEN <<r.body>> ELSE <<>>)

\* The chunks send() hands to write_all, one after the other, for a response
\* whose headers are iterated in the given order.
SendChunks(r, order) ==
    <<StatusLine(r.status)>>
    \o [i \in DOMAIN order |-> HeaderLine(order[i], r.headers[order[i]])]
    \o <<LengthChunk(r.body)>>
    \o (IF r.body # <<>> THEN <<r.body>> ELSE <<>>)

RECURSIVE Flatten(_)
Flatten(chunks) ==
    IF chunks = <<>> THEN <<>> ELSE Head(chunks) \o Flatten(Tail(chunks))

(***************************************************************************)
(* Config and the filesystem.                                              *)
(***************************************************************************)
\* An Option is a sequence of length 0 (None) or 1 (Some).
None == <<>>
Some(x) == <<x>>

\* The directory that --directory names in the runs of the model: a path of
\* valid UTF-8, which to_str().unwrap() returns as it is.
Directory == <<"/", "d">>

DefaultConfig == [address |-> "127.0.0.1", port |-> 4221, static_files |-> None]

\* format!("{}/{entity}", root)
FilePath(root, entity) == root \o <<"/">> \o entity

\* What the operating system finds at path p.  files maps the paths of the
\* regular files to their contents.  The directory holds regular files only,
\* a path with a zero byte is rejected by every call, and paths are compared
\* byte for byte.
FsKind(files, p) ==
    IF SeqContains(p, "NUL") THEN "invalid"
    ELSE IF p \in DOMAIN files THEN "file"
    ELSE IF p = Directory \o <<"/">> THEN "dir"
    ELSE "missing"

\* tokio::fs::write creates the file when its parent directory exists.
ParentExists(p) ==
    StartsWith(p, Directory \o <<"/">>)
    /\ ~SeqContains(StripPrefix(p, Directory \o <<"/">>), "/")

\* Display of the io::Error of a failed read_to_string.
ReadErrorText(kind, content) ==
    CASE kind = "dir" ->
           <<"I", "s", " ", "a", " ", "d", "i", "r", "e", "c", "t", "o", "r", "y", " ",
             "(", "o", "s", " ", "e", "r", "r", "o", "r", " ", "2", "1", ")">>
      [] kind = "file" ->
           <<"s", "t", "r", "e", "a", "m", " ", "d", "i", "d", " ", "n", "o", "t", " ",
             "c", "o", "n", "t", "a", "i", "n", " ", "v", "a", "l", "i", "d", " ",
             "U", "T", "F", "-", "8">>
      [] OTHER ->
           <<"N", "o", " ", "s", "u", "c", "h", " ", "f", "i", "l", "e", " ", "o", "r", " ",
             "d", "i", "r", "e", "c", "t", "o", "r", "y", " ",
             "(", "o", "s", " ", "e", "r", "r", "o", "r", " ", "2", ")">>

(***************************************************************************)
(* The requests that clients send in the runs of the model: for each       *)
(* connection, the bytes the client writes before it closes its side.      *)
(***************************************************************************)
GET == <<"G", "E", "T">>
POST == <<"P", "O", "S", "T">>
PUT == <<"P", "U", "T">>

RequestLine(m, p) == m \o <<SP>> \o p \o <<SP>> \o Http11 \o CRLF

EntityF == <<"f">>
EntityG == <<"g">>
FileF == FilesPrefix \o EntityF
FileG == FilesPrefix \o EntityG
TextHi == <<"h", "i">>
GzipDeflate == <<"g", "z", "i", "p", ",", " ", "d", "e", "f", "l", "a", "t", "e">>
DeflateGzip == <<"d", "e", "f", "l", "a", "t", "e", ",", " ", "g", "z", "i", "p">>

Methods == {GET, POST, PUT}

Paths ==
    { RootPath,
      UserAgentPath,
      EchoPrefix,
      EchoPrefix \o <<"a", "/", "xC3", "xA9">>,
      FileF,
      FileG,
      FilesPrefix,
      FilesPrefix \o <<"NUL">>,
      FilesPrefix \o <<"s", "/", "f">>,
      <<"/", "x">> }

\* What follows the request line: header lines, the blank line, body bytes.
Tails ==
    { CRLF,
      HeaderLine(UserAgent, <<"a">>)
          \o HeaderLine(UserAgent, <<" ", "b", "/", "1", " ">>) \o CRLF,
      HeaderLine(AcceptEncoding, GzipDeflate) \o CRLF,
      HeaderLine(<<"u", "s", "e", "r", "-", "a", "g", "e", "n", "t">>, <<"a">>)
          \o HeaderLine(AcceptEncoding, DeflateGzip) \o CRLF,
      HeaderLine(ContentLength, <<"2">>) \o HeaderLine(AcceptEncoding, Gzip)
          \o CRLF \o TextHi,
      HeaderLine(ContentLength, <<"1">>) \o CRLF \o <<"xFF">>,
      HeaderLine(ContentLength, <<"x">>) \o CRLF \o TextHi }

WellFormedStreams == {RequestLine(m, p) \o t : m \in Methods, p \in Paths, t \in Tails}

\* Streams with something unusual about them.
OddStreams ==
    { \* a method in lower case
      RequestLine(<<"g", "e", "t">>, EchoPrefix \o <<"a">>) \o CRLF,
      \* a second request behind the first
      RequestLine(GET, RootPath) \o CRLF \o RequestLine(GET, <<"/", "x">>) \o CRLF,
      \* the stream ends before the blank line
      RequestLine(GET, RootPath),
      RequestLine(GET, UserAgentPath) \o HeaderLine(UserAgent, <<"a">>),
      \* a header line that is not UTF-8 ends the header loop
      RequestLine(POST, FileF) \o HeaderLine(ContentLength, <<"2">>)
          \o <<"xFF">> \o CRLF \o TextHi }

MalformedStreams ==
    { <<>>,
      GET \o <<SP>> \o RootPath \o CRLF \o CRLF,
      RequestLine(<<"D", "E", "L", "E", "T", "E">>, RootPath) \o CRLF,
      RequestLine(GET, RootPath) \o <<"B", "a", "d">> \o CRLF \o CRLF,
      RequestLine(GET, <<"/", "xFF">>) \o CRLF,
      RequestLine(POST, FileF) \o HeaderLine(ContentLength, <<"3">>) \o CRLF \o TextHi }

Streams == WellFormedStreams \cup OddStreams \cup MalformedStreams

\* The streams of the runs in which connections are handled concurrently.
ConcurrentStreams ==
    { RequestLine(POST, FileF) \o HeaderLine(ContentLength, <<"2">>) \o CRLF \o TextHi,
      RequestLine(POST, FileF) \o HeaderLine(ContentLength, <<"1">>) \o CRLF \o <<"a">>,
      RequestLine(GET, FileF) \o CRLF,
      RequestLine(GET, EchoPrefix \o <<"a">>) \o HeaderLine(AcceptEncoding, Gzip) \o CRLF,
      GET \o <<SP>> \o RootPath \o CRLF \o CRLF }

(***************************************************************************)
(* State.                                                                  *)
(***************************************************************************)
VARIABLES
    mainpc,   \* where main() is: "start", "args", "loop", "exit"
    config,   \* main's Config
    files,    \* the regular files on disk: path -> contents
    pc,       \* per connection task: "idle", "parse", "route", "try_exists",
              \* "read", "write", "send", "done"
    cfg,      \* per task: its clone of Config
    sent,     \* per connection: the bytes the client has sent
    stream,   \* per connection: those of them that the task has not read yet
    req,      \* per task: the parsed Request
    resp,     \* per task: the Response it builds
    wire,     \* per connection: the bytes written to the client
    result,   \* per task: "none" while it runs, then "ok", "err" or "panic"
    events    \* per task: the calls it has made, in order

vars == <<mainpc, config, files, pc, cfg, sent, stream, req, resp, wire, result, events>>

conn_vars == <<pc, cfg, sent, stream, req, resp, wire, result, events>>

Init ==
    /\ mainpc = "start"
    /\ config = DefaultConfig
    /\ files = [p \in {FilePath(Directory, EntityG)} |-> TextHi]
    /\ pc = [c \in Conns |-> "idle"]
    /\ cfg = [c \in Conns |-> DefaultConfig]
    /\ sent = [c \in Conns |-> <<>>]
    /\ stream = [c \in Conns |-> <<>>]
    /\ req = [c \in Conns |-> NoRequest]
    /\ resp = [c \in Conns |-> NoResponse]
    /\ wire = [c \in Conns |-> <<>>]
    /\ result = [c \in Conns |-> "none"]
    /\ events = [c \in Conns |-> <<>>]

(***************************************************************************)
(* main.                                                                   *)
(***************************************************************************)
\* TcpListener::bind(..).await?  -- main returns when the bind fails.
Bind ==
    /\ mainpc = "start"
    /\ \E ok \in BOOLEAN : mainpc' = IF ok THEN "args" ELSE "exit"
    /\ UNCHANGED <<config, files, conn_vars>>

\* The loop over env::args_os(): --directory <path> sets static_files; a
\* last --directory without a path sets it to None.
ParseArgs ==
    /\ mainpc = "args"
    /\ \E d \in {None, Some(Directory)} :
           config' = [config EXCEPT !.static_files = d]
    /\ mainpc' = "loop"
    /\ UNCHANGED <<files, conn_vars>>

\* A faulty variant of AcceptStream: the task is given the Config as it was
\* when the listener was bound instead of a clone of the Config of main.
AcceptStreamBoundConfig(c, s) ==
    /\ mainpc = "loop"
    /\ pc[c] = "idle"
    /\ \A d \in Conns : d < c => pc[d] # "idle"
    /\ sent' = [sent EXCEPT ![c] = s]
    /\ stream' = [stream EXCEPT ![c] = s]
    /\ cfg' = [cfg EXCEPT ![c] = DefaultConfig]
    /\ pc' = [pc EXCEPT ![c] = "parse"]
    /\ UNCHANGED <<mainpc, config, files, req, resp, wire, result, events>>

\* listener.accept() returns a connection, on which the client sends the bytes
\* s: a task is spawned with a clone of config.  The lowest free number names
\* the connection.
AcceptStream(c, s) ==
    /\ mainpc = "loop"
    /\ pc[c] = "idle"
    /\ \A d \in Conns : d < c => pc[d] # "idle"
    /\ sent' = [sent EXCEPT ![c] = s]
    /\ stream' = [stream EXCEPT ![c] = s]
    /\ cfg' = [cfg EXCEPT ![c] = config]
    /\ pc' = [pc EXCEPT ![c] = "parse"]
    /\ UNCHANGED <<mainpc, config, files, req, resp, wire, result, events>>

\* Clients connect at any time.
Accept(c) == \E s \in ConcurrentStreams : AcceptStream(c, s)

\* A client connects once the connection before it is closed.
AcceptSerial(c) ==
    /\ \A d \in Conns : pc[d] = "idle"
    /\ \E s \in Streams : AcceptStream(c, s)

\* listener.accept() fails: the loop breaks and main returns, which shuts
\* the runtime down with the tasks that are still running.
AcceptError ==
    /\ mainpc = "loop"
    /\ mainpc' = "exit"
    /\ UNCHANGED <<config, files, conn_vars>>

\* A faulty variant of Running: a panic in one task aborts the process (as
\* under panic = "abort"), so no task takes a step after it.
RunningUntilPanic(c, at) ==
    /\ mainpc = "loop"
    /\ pc[c] = at
    /\ \A d \in Conns : result[d] # "panic"

(***************************************************************************)
(* handle_connection: the task of connection c.  It runs while the runtime *)
(* does, that is, until main returns.                                      *)
(***************************************************************************)
Running(c, at) == mainpc = "loop" /\ pc[c] = at

Log(c, call) == events' = [events EXCEPT ![c] = Append(@, call)]

\* A faulty variant of Finish, a keep-alive loop: after a response the task
\* goes back to parse the next request of the connection.
FinishKeepAlive(c, how) ==
    /\ pc' = [pc EXCEPT ![c] = IF how = "ok" THEN "parse" ELSE "done"]
    /\ result' = [result EXCEPT ![c] = IF how = "ok" THEN @ ELSE how]

\* The task ends: handle_connection returns Ok or Err, or it has panicked.
Finish(c, how) ==
    /\ pc' = [pc EXCEPT ![c] = "done"]
    /\ result' = [result EXCEPT ![c] = how]

\* A faulty variant of ParseRequest: a request that does not parse is
\* answered 400.
ParseRequestAnswersFailure(c) ==
    /\ Running(c, "parse")
    /\ LET p == Parse(stream[c])
       IN  /\ stream' = [stream EXCEPT ![c] = p.rest]
           /\ req' = [req EXCEPT ![c] = p.req]
           /\ pc' = [pc EXCEPT ![c] = IF p.outcome = "ok" THEN "route" ELSE "send"]
           /\ resp' = [resp EXCEPT ![c] = IF p.outcome = "ok" THEN @ ELSE NewResponse(400)]
    /\ Log(c, "parse")
    /\ UNCHANGED <<mainpc, config, files, cfg, sent, wire, result>>

\* Request::parse(&mut b).await?
ParseRequest(c) ==
    /\ Running(c, "parse")
    /\ LET p == Parse(stream[c])
       IN  /\ stream' = [stream EXCEPT ![c] = p.rest]
           /\ req' = [req EXCEPT ![c] = p.req]
           /\ IF p.outcome = "ok"
              THEN pc' = [pc EXCEPT ![c] = "route"] /\ UNCHANGED result
              ELSE Finish(c, p.outcome)
    /\ Log(c, "parse")
    /\ UNCHANGED <<mainpc, config, files, cfg, sent, resp, wire>>

\* A faulty variant of DispatchFiles: the method is looked at before
\* static_files is.
DispatchFilesMethodFirst(r, conf) ==
    IF r.method = "Put"
    THEN [next |-> "send", resp |-> NewResponse(400)]
    ELSE IF conf.static_files = None
    THEN [next |-> "send", resp |-> NewResponse(404)]
    ELSE IF r.method = "Get"
    THEN [next |-> "try_exists", resp |-> NoResponse]
    ELSE [next |-> "write", resp |-> NoResponse]

\* A faulty variant of DispatchFiles: a method that is neither GET nor POST
\* is answered 405.
DispatchFilesNotAllowed(r, conf) ==
    IF conf.static_files = None
    THEN [next |-> "send", resp |-> NewResponse(404)]
    ELSE IF r.method = "Get"
    THEN [next |-> "try_exists", resp |-> NoResponse]
    ELSE IF r.method = "Post"
    THEN [next |-> "write", resp |-> NoResponse]
    ELSE [next |-> "send", resp |-> NewResponse(405)]

\* A faulty variant of DispatchFiles: every method but GET writes the file.
DispatchFilesPutWrites(r, conf) ==
    IF conf.static_files = None
    THEN [next |-> "send", resp |-> NewResponse(404)]
    ELSE IF r.method = "Get"
    THEN [next |-> "try_exists", resp |-> NoResponse]
    ELSE [next |-> "write", resp |-> NoResponse]

\* The branch of the if/else chain for a path that starts with /files/: 404
\* without a directory; with one, GET goes on to try_exists, POST to write,
\* and any other method is answered 400.
DispatchFiles(r, conf) ==
    IF conf.static_files = None
    THEN [next |-> "send", resp |-> NewResponse(404)]
    ELSE IF r.method = "Get"
    THEN [next |-> "try_exists", resp |-> NoResponse]
    ELSE IF r.method = "Post"
    THEN [next |-> "write", resp |-> NoResponse]
    ELSE [next |-> "send", resp |-> NewResponse(400)]

\* The if/else chain over req.path: the Response to send, or the filesystem
\* call to make first.
Dispatch(r, conf) ==
    IF r.path = RootPath
    THEN [next |-> "send", resp |-> NewResponse(200)]
    ELSE IF r.path = UserAgentPath
    THEN [next |-> "send",
          resp |-> WithBody(WithHeader(NewResponse(200), ContentType, TextPlain),
                            MapGetOrEmpty(r.headers, UserAgent))]
    ELSE IF StartsWith(r.path, EchoPrefix)
    THEN [next |-> "send",
          resp |-> WithBody(WithHeader(NewResponse(200), ContentType, TextPlain),
                            StripPrefix(r.path, EchoPrefix))]
    ELSE IF StartsWith(r.path, FilesPrefix)
    THEN DispatchFiles(r, conf)
    ELSE [next |-> "send", resp |-> NewResponse(404)]

\* A faulty variant of Route: the response under construction is kept in one
\* place for all connections.
RouteSharedResponse(c) ==
    /\ Running(c, "route")
    /\ LET d == Dispatch(req[c], cfg[c])
       IN  /\ pc' = [pc EXCEPT ![c] = d.next]
           /\ resp' = [e \in Conns |-> d.resp]
    /\ UNCHANGED <<mainpc, config, files, cfg, sent, stream, req, wire, result, events>>

Route(c) ==
    /\ Running(c, "route")
    /\ LET d == Dispatch(req[c], cfg[c])
       IN  /\ pc' = [pc EXCEPT ![c] = d.next]
           /\ resp' = [resp EXCEPT ![c] = d.resp]
    /\ UNCHANGED <<mainpc, config, files, cfg, sent, stream, req, wire, result, events>>

\* The path of the file that a /files/ request names.
FPath(c) == FilePath(cfg[c].static_files[1], StripPrefix(req[c].path, FilesPrefix))

\* tokio::fs::try_exists(&fpath).await?  -- 404 when the path is not there.
TryExists(c) ==
    /\ Running(c, "try_exists")
    /\ LET kind == FsKind(files, FPath(c))
       IN  CASE kind = "invalid" ->
                  Finish(c, "err") /\ UNCHANGED resp
             [] kind = "missing" ->
                  /\ pc' = [pc EXCEPT ![c] = "send"]
                  /\ resp' = [resp EXCEPT ![c] = NewResponse(404)]
                  /\ UNCHANGED result
             [] OTHER ->
                  /\ pc' = [pc EXCEPT ![c] = "read"]
                  /\ UNCHANGED <<resp, result>>
    /\ Log(c, "try_exists")
    /\ UNCHANGED <<mainpc, config, files, cfg, sent, stream, req, wire>>

\* The Response for the outcome of read_to_string on a path of this kind.
ReadResponse(kind, content) ==
    IF kind = "file" /\ IsUtf8(content)
    THEN WithBody(WithHeader(NewResponse(200), ContentType, OctetStream), content)
    ELSE WithBody(NewResponse(500), FailedToRead \o ReadErrorText(kind, content))

\* tokio::fs::read_to_string(&fpath).await and its match.
ReadFile(c) ==
    /\ Running(c, "read")
    /\ LET kind == FsKind(files, FPath(c))
           content == IF kind = "file" THEN files[FPath(c)] ELSE <<>>
       IN  resp' = [resp EXCEPT ![c] = ReadResponse(kind, content)]
    /\ pc' = [pc EXCEPT ![c] = "send"]
    /\ Log(c, "read_to_string")
    /\ UNCHANGED <<mainpc, config, files, cfg, sent, stream, req, wire, result>>

\* Whether tokio::fs::write creates or truncates the file at p.
CanWrite(fs, p) ==
    \/ FsKind(fs, p) = "file"
    \/ FsKind(fs, p) = "missing" /\ ParentExists(p)

\* A faulty variant of WriteFile: a failed write is answered 500, as a failed
\* read is.
WriteFileAnswersFailure(c) ==
    /\ Running(c, "write")
    /\ IF CanWrite(files, FPath(c))
       THEN /\ files' = [p \in (DOMAIN files) \cup {FPath(c)} |->
                            IF p = FPath(c) THEN req[c].body ELSE files[p]]
            /\ resp' = [resp EXCEPT ![c] = NewResponse(201)]
       ELSE /\ resp' = [resp EXCEPT ![c] = WithBody(NewResponse(500), FailedToRead)]
            /\ UNCHANGED files
    /\ pc' = [pc EXCEPT ![c] = "send"]
    /\ Log(c, "write")
    /\ UNCHANGED <<mainpc, config, cfg, sent, stream, req, wire, result>>

\* tokio::fs::write(fpath, &req.body).await?  -- then 201.
WriteFile(c) ==
    /\ Running(c, "write")
    /\ IF CanWrite(files, FPath(c))
       THEN /\ files' = [p \in (DOMAIN files) \cup {FPath(c)} |->
                            IF p = FPath(c) THEN req[c].body ELSE files[p]]
            /\ pc' = [pc EXCEPT ![c] = "send"]
            /\ resp' = [resp EXCEPT ![c] = NewResponse(201)]
            /\ UNCHANGED result
       ELSE /\ Finish(c, "err")
            /\ UNCHANGED <<files, resp>>
    /\ Log(c, "write")
    /\ UNCHANGED <<mainpc, config, cfg, sent, stream, req, wire>>

\* Response::send(): the status line, append_own_headers, a line per header
\* in the map's iteration order, the Content-Length chunk, and the body when
\* it is not empty.  Each chunk is one write_all; the first that fails makes
\* send return Err, and the chunks before it have reached the client (a
\* failing write_all is taken to deliver none of its chunk).  n is the number
\* of chunks that are written.
Send(c) ==
    /\ Running(c, "send")
    /\ IF resp[c].status \notin KnownStatus
       THEN Finish(c, "panic") /\ UNCHANGED <<resp, wire>>
       ELSE LET r == AppendOwnHeaders(resp[c], req[c])
            IN  \E order \in Orders(DOMAIN r.headers) :
                \E n \in 0..Len(SendChunks(r, order)) :
                    /\ wire' = [wire EXCEPT ![c] =
                                   @ \o Flatten(SubSeq(SendChunks(r, order), 1, n))]
                    /\ resp' = [resp EXCEPT ![c] = IF n = 0 THEN @ ELSE r]
                    /\ Finish(c, IF n = Len(SendChunks(r, order)) THEN "ok" ELSE "err")
    /\ Log(c, "send")
    /\ UNCHANGED <<mainpc, config, files, cfg, sent, stream, req>>

\* The task is over and its TcpStream dropped: the connection is closed and
\* nothing of it is left.
Close(c) ==
    /\ pc[c] = "done"
    /\ pc' = [pc EXCEPT ![c] = "idle"]
    /\ cfg' = [cfg EXCEPT ![c] = DefaultConfig]
    /\ sent' = [sent EXCEPT ![c] = <<>>]
    /\ stream' = [stream EXCEPT ![c] = <<>>]
    /\ req' = [req EXCEPT ![c] = NoRequest]
    /\ resp' = [resp EXCEPT ![c] = NoResponse]
    /\ wire' = [wire EXCEPT ![c] = <<>>]
    /\ result' = [result EXCEPT ![c] = "none"]
    /\ events' = [events EXCEPT ![c] = <<>>]
    /\ UNCHANGED <<mainpc, config, files>>

\* A step of the task of connection c.
Task(c) ==
    \/ ParseRequest(c)
    \/ Route(c)
    \/ TryExists(c)
    \/ ReadFile(c)
    \/ WriteFile(c)
    \/ Send(c)
    \/ Close(c)

Next ==
    \/ Bind
    \/ ParseArgs
    \/ AcceptError
    \/ \E c \in Conns : Accept(c) \/ Task(c)

\* Connections handled concurrently.
Spec == Init /\ [][Next]_vars

NextSerial ==
    \/ Bind
    \/ ParseArgs
    \/ AcceptError
    \/ \E c \in Conns : AcceptSerial(c) \/ Task(c)

\* One connection after the other.
SpecSerial == Init /\ [][NextSerial]_vars

(***************************************************************************)
(* The response as a client reads it off the wire.                         *)
(***************************************************************************)
RECURSIVE SplitOn(_, _)
SplitOn(s, pat) ==
    LET i == Find(s, pat)
    IN  IF i = 0 THEN <<s>>
        ELSE <<SubSeq(s, 1, i - 1)>> \o SplitOn(SubSeq(s, i + Len(pat), Len(s)), pat)

\* Where the blank line starts that ends the head; 0 when there is none.
WireHeadEnd(w) == Find(w, CRLF \o CRLF)
WireLines(w) == SplitOn(SubSeq(w, 1, WireHeadEnd(w) - 1), CRLF)
WireHeaderLines(w) == Tail(WireLines(w))
WireBody(w) == SubSeq(w, WireHeadEnd(w) + 4, Len(w))
\* The three digits after "HTTP/1.1 ".
WireStatus(w) == DecimalValue(SubSeq(WireLines(w)[1], Len(Http11) + 2, Len(Http11) + 4), 0)
WireHasHeader(w, name, value) ==
    \E i \in DOMAIN WireHeaderLines(w) : WireHeaderLines(w)[i] = name \o <<":", " ">> \o value
WireHeaderValues(w, name) ==
    LET hl == WireHeaderLines(w)
        idx == {i \in DOMAIN hl : StartsWith(hl[i], name \o <<":", " ">>)}
    IN  [i \in idx |-> SubSeq(hl[i], Len(name) + 3, Len(hl[i]))]

Count(seq, x) == Cardinality({i \in DOMAIN seq : seq[i] = x})

\* The task of c is over and send() returned Ok: the client has a whole response.
Answered(c) == pc[c] = "done" /\ result[c] = "ok"

FsCalls == {"try_exists", "read_to_string", "write"}

(***************************************************************************)
(* Properties.                                                             *)
(***************************************************************************)

C2_EchoBody ==
    \A c \in Conns :
        (req[c].method = "Get" /\ StartsWith(req[c].path, EchoPrefix)) =>
            /\ pc[c] = "done" => events[c] = <<"parse", "send">>
            /\ Answered(c) =>
                   /\ WireStatus(wire[c]) = 200
                   /\ WireHasHeader(wire[c], ContentType, TextPlain)
                   /\ EchoPrefix \o WireBody(wire[c]) = req[c].path

\* C2 witness: an answered GET of /echo/a/<U+00E9>, an S with a '/' and a
\* character of two bytes in it.
C2_Witness ==
    \E c \in Conns :
        /\ Answered(c)
        /\ req[c].method = "Get"
        /\ req[c].path = EchoPrefix \o <<"a", "/", "xC3", "xA9">>
        /\ WireBody(wire[c]) = <<"a", "/", "xC3", "xA9">>

\* The header lines of the request that the client sent: the lines after the
\* request line and before the blank line.
RECURSIVE UpToBlank(_)
UpToBlank(lines) ==
    IF lines = <<>> \/ Head(lines) = <<>> THEN <<>>
    ELSE <<Head(lines)>> \o UpToBlank(Tail(lines))

SentHeaderLines(c) == UpToBlank(Tail(SplitOn(sent[c], CRLF)))

\* The values, in the order sent, of the header lines named exactly name.
SentValues(c, name) ==
    SelectSeq([i \in DOMAIN SentHeaderLines(c) |->
                   IF StartsWith(SentHeaderLines(c)[i], name \o <<":", " ">>)
                   THEN <<Trim(SubSeq(SentHeaderLines(c)[i], Len(name) + 3,
                                      Len(SentHeaderLines(c)[i])))>>
                   ELSE <<>>],
              LAMBDA v : v # <<>>)

\* C3: a request for /user-agent, whatever its method, makes no filesystem
\* call and calls send(); the response has status 200, Content-Type:
\* text/plain, and as body the trimmed value of the last header line that the
\* client sent under the exact name User-Agent; when it sent none, the body
\* is empty and the response says Content-Length: 0.
C3_UserAgentBody ==
    \A c \in Conns :
        req[c].path = UserAgentPath =>
            /\ pc[c] = "done" => events[c] = <<"parse", "send">>
            /\ Answered(c) =>
                   LET ua == SentValues(c, UserAgent)
                   IN  /\ WireStatus(wire[c]) = 200
                       /\ WireHasHeader(wire[c], ContentType, TextPlain)
                       /\ ua # <<>> => WireBody(wire[c]) = ua[Len(ua)][1]
                       /\ ua = <<>> =>
                              /\ WireBody(wire[c]) = <<>>
                              /\ WireHasHeader(wire[c], ContentLength, <<"0">>)

\* C3 witness: an answered request for /user-agent that carried two
\* User-Agent lines, "a" and then " b/1 ": the body is "b/1".
C3_Witness ==
    \E c \in Conns :
        /\ Answered(c)
        /\ req[c].path = UserAgentPath
        /\ Len(SentValues(c, UserAgent)) = 2
        /\ WireBody(wire[c]) = <<"b", "/", "1">>

\* C4: a task whose Config has no static_files and whose request path starts
\* with /files/ makes no filesystem call, whatever the method, and calls
\* send(); the response has status 404.
C4_NoRootNotFound ==
    \A c \in Conns :
        (pc[c] # "idle" /\ cfg[c].static_files = None
            /\ StartsWith(req[c].path, FilesPrefix)) =>
            /\ \A i \in DOMAIN events[c] : events[c][i] \notin FsCalls
            /\ pc[c] = "done" => events[c] = <<"parse", "send">>
            /\ Answered(c) => WireStatus(wire[c]) = 404

\* C4 witness: without static_files, a PUT to /files/f has been answered 404.
C4_Witness ==
    \E c \in Conns :
        /\ Answered(c)
        /\ cfg[c].static_files = None
        /\ req[c].method = "Put"
        /\ req[c].path = FileF
        /\ WireStatus(wire[c]) = 404

\* The task of c has a directory and its request path starts with /files/.
FilesRequest(c) ==
    pc[c] # "idle" /\ cfg[c].static_files # None /\ StartsWith(req[c].path, FilesPrefix)

\* C5 (as claimed): with a directory, an answered POST to /files/E has status
\* 201, an empty body, and has left the request body B in the file; and an
\* answered GET of /files/E for a file that holds B has status 200 and body B,
\* whatever bytes B is made of.
C5_PostThenGet ==
    \A c \in Conns :
        (FilesRequest(c) /\ Answered(c)) =>
            /\ req[c].method = "Post" =>
                   /\ WireStatus(wire[c]) = 201
                   /\ WireBody(wire[c]) = <<>>
                   /\ FPath(c) \in DOMAIN files /\ files[FPath(c)] = req[c].body
            /\ (req[c].method = "Get" /\ FPath(c) \in DOMAIN files) =>
                   /\ WireStatus(wire[c]) = 200
                   /\ WireBody(wire[c]) = files[FPath(c)]

\* C6 (as claimed): with a directory, the task of a GET of /files/E always
\* comes to call send(), and the response is 404 when nothing is at the path,
\* 200 with Content-Type: application/octet-stream and the file's contents
\* when the read succeeds, and 500 with a body when something is at the path
\* and the read fails.
C6_GetOutcomes ==
    \A c \in Conns :
        (FilesRequest(c) /\ req[c].method = "Get" /\ pc[c] = "done") =>
            /\ Count(events[c], "send") = 1
            /\ Answered(c) =>
                   LET kind == FsKind(files, FPath(c))
                   IN  \/ /\ kind \notin {"file", "dir"}
                          /\ WireStatus(wire[c]) = 404
                       \/ /\ kind = "file" /\ IsUtf8(files[FPath(c)])
                          /\ WireStatus(wire[c]) = 200
                          /\ WireHasHeader(wire[c], ContentType, OctetStream)
                          /\ WireBody(wire[c]) = files[FPath(c)]
                       \/ /\ kind = "dir" \/ (kind = "file" /\ ~IsUtf8(files[FPath(c)]))
                          /\ WireStatus(wire[c]) = 500
                          /\ WireBody(wire[c]) # <<>>

C8_WriteFailureNoResponse ==
    \A c \in Conns :
        (FilesRequest(c) /\ req[c].method = "Post" /\ pc[c] = "done"
            /\ ~CanWrite(files, FPath(c))) =>
            /\ result[c] = "err"
            /\ events[c] = <<"parse", "write">>
            /\ wire[c] = <<>>

\* C8 witness: a POST to /files/s/f, where no directory s is, has ended in Err
\* after the write, with nothing sent.
C8_Witness ==
    \E c \in Conns :
        /\ pc[c] = "done" /\ result[c] = "err"
        /\ FilesRequest(c)
        /\ req[c].method = "Post"
        /\ req[c].path = FilesPrefix \o <<"s", "/", "f">>
        /\ events[c] = <<"parse", "write">>
        /\ wire[c] = <<>>

\* The text v has, between its commas, a piece that is exactly "gzip".
HasGzipPiece(v) ==
    \E i \in 1..Len(v) :
        /\ i + Len(Gzip) - 1 <= Len(v)
        /\ SubSeq(v, i, i + Len(Gzip) - 1) = Gzip
        /\ i = 1 \/ v[i - 1] = ","
        /\ i + Len(Gzip) - 1 = Len(v) \/ v[i + Len(Gzip)] = ","

\* C9: a response that the client got whole has the header Content-Encoding:
\* gzip exactly when the request's Accept-Encoding value has, between its
\* commas, a piece that is exactly "gzip"; it has no other Content-Encoding
\* header, and its body is the body the handler set, byte for byte.
C9_GzipHeader ==
    \A c \in Conns :
        Answered(c) =>
            /\ WireHasHeader(wire[c], ContentEncoding, Gzip)
                   <=> (MapHas(req[c].headers, AcceptEncoding)
                        /\ HasGzipPiece(req[c].headers[AcceptEncoding]))
            /\ \A i \in DOMAIN WireHeaderValues(wire[c], ContentEncoding) :
                   WireHeaderValues(wire[c], ContentEncoding)[i] = Gzip
            /\ WireBody(wire[c]) = resp[c].body

\* C9 witness: a request with Accept-Encoding: gzip, deflate has been answered
\* 201 with Content-Encoding: gzip.
C9_Witness ==
    \E c \in Conns :
        /\ Answered(c)
        /\ MapHas(req[c].headers, AcceptEncoding)
        /\ req[c].headers[AcceptEncoding] = GzipDeflate
        /\ WireStatus(wire[c]) = 201
        /\ WireHasHeader(wire[c], ContentEncoding, Gzip)

\* C10: no handler puts Content-Length among the headers of its Response; a
\* response that the client got whole has exactly one Content-Length header,
\* and its value is the decimal number of the bytes of the body that follows,
\* which is the body of the Response.
C10_ContentLength ==
    \A c \in Conns :
        /\ ~MapHas(resp[c].headers, ContentLength)
        /\ Answered(c) =>
               LET v == WireHeaderValues(wire[c], ContentLength)
               IN  /\ Cardinality(DOMAIN v) = 1
                   /\ \A i \in DOMAIN v :
                          /\ v[i] # <<>> /\ \A j \in DOMAIN v[i] : IsDigit(v[i][j])
                          /\ Len(v[i]) > 1 => v[i][1] # "0"
                          /\ DecimalValue(v[i], 0) = Len(WireBody(wire[c]))
                   /\ WireBody(wire[c]) = resp[c].body

\* C10 witness: the answer to GET /echo/a/<U+00E9> says Content-Length: 4 for
\* a body of three characters in four bytes.
C10_Witness ==
    \E c \in Conns :
        /\ Answered(c)
        /\ resp[c].body = <<"a", "/", "xC3", "xA9">>
        /\ WireHasHeader(wire[c], ContentLength, <<"4">>)

\* The bytes of a whole response in the order claimed for C11: the status
\* line, the header lines, a blank line, the Content-Length line, the body.
ClaimedLayout(r, order) ==
    StatusLine(r.status)
    \o Flatten([i \in DOMAIN order |-> order[i] \o <<":", " ">> \o r.headers[order[i]] \o CRLF])
    \o CRLF
    \o ContentLength \o <<":", " ">> \o ToDecimal(Len(r.body)) \o CRLF
    \o r.body

\* The bytes of a whole response with the Content-Length line before the
\* blank line.
LengthFirstLayout(r, order) ==
    StatusLine(r.status)
    \o Flatten([i \in DOMAIN order |-> order[i] \o <<":", " ">> \o r.headers[order[i]] \o CRLF])
    \o ContentLength \o <<":", " ">> \o ToDecimal(Len(r.body)) \o CRLF
    \o CRLF
    \o r.body

IsPrefix(p, s) == Len(p) <= Len(s) /\ SubSeq(s, 1, Len(p)) = p

\* C11 (as claimed): the bytes of a response that send() wrote whole are the
\* status line, the header lines in some order, a blank line, the
\* Content-Length line, and the body.
C11_ClaimedOrder ==
    \A c \in Conns :
        Answered(c) =>
            \E order \in Orders(DOMAIN resp[c].headers) :
                wire[c] = ClaimedLayout(resp[c], order)

\* C11 (amended): what send() has written is at every moment a prefix of: the
\* status line, the header lines in some order, the Content-Length line, a
\* blank line, the body; and it is all of that when send() has returned Ok.
C11_WriteOrder ==
    \A c \in Conns :
        wire[c] # <<>> =>
            \E order \in Orders(DOMAIN resp[c].headers) :
                /\ IsPrefix(wire[c], LengthFirstLayout(resp[c], order))
                /\ Answered(c) => wire[c] = LengthFirstLayout(resp[c], order)

\* C11 witness: a whole response with two headers and a body that is not empty.
C11_Witness ==
    \E c \in Conns :
        /\ Answered(c)
        /\ Cardinality(DOMAIN resp[c].headers) = 2
        /\ resp[c].body # <<>>

\* C12: when Request::parse has not returned a request (it returned Err or
\* panicked), the task is over, it has called nothing else, and no byte has
\* reached the client; this is what happens to an empty stream, a request
\* line of two tokens, the method DELETE, a header line without ": ", a
\* request line that is not UTF-8, and a POST body shorter than its
\* Content-Length.
C12_ParseFailureSilent ==
    \A c \in Conns :
        /\ (pc[c] \notin {"idle", "parse"} /\ sent[c] \in MalformedStreams) => req[c] = NoRequest
        /\ (pc[c] \notin {"idle", "parse"} /\ req[c] = NoRequest) =>
               /\ pc[c] = "done"
               /\ result[c] \in {"err", "panic"}
               /\ events[c] = <<"parse">>
               /\ wire[c] = <<>>

\* C12 witness: the task of a POST that declares three bytes and sends two is
\* over with an Err and nothing written.
C12_Witness ==
    \E c \in Conns :
        /\ pc[c] = "done" /\ result[c] = "err"
        /\ sent[c] = RequestLine(POST, FileF) \o HeaderLine(ContentLength, <<"3">>)
                         \o CRLF \o TextHi
        /\ req[c] = NoRequest
        /\ wire[c] = <<>>

\* Everything the model keeps for connection c.
ConnState(c) ==
    <<pc[c], cfg[c], sent[c], stream[c], req[c], resp[c], wire[c], result[c], events[c]>>

\* The task of connection c is running.
InTask(c) == pc[c] \notin {"idle", "done"}

\* The steps of a task that has its request.
AfterParse(c) == Route(c) \/ TryExists(c) \/ ReadFile(c) \/ WriteFile(c) \/ Send(c)

\* In every state where main is in its loop, whatever has failed: the
\* listener can accept on the next free slot, a task that has parsed its
\* request can take its next step, and an answered GET /echo/a has status 200
\* and body "a".
C13_LoopAlive ==
    mainpc = "loop" =>
        \A c \in Conns :
            /\ (pc[c] = "idle" /\ \A d \in Conns : d < c => pc[d] # "idle") => ENABLED Accept(c)
            /\ (InTask(c) /\ pc[c] # "parse") => ENABLED AfterParse(c)
            /\ (Answered(c) /\ req[c].path = EchoPrefix \o <<"a">>) =>
                   WireStatus(wire[c]) = 200 /\ WireBody(wire[c]) = <<"a">>

\* The step in which the task of connection c fails (Err or panic) leaves
\* main, the Config, the files and every other connection as they were.
C13_FailureStaysInside ==
    \A c \in Conns :
        (result[c] = "none" /\ result'[c] \in {"err", "panic"}) =>
            /\ mainpc' = mainpc
            /\ config' = config
            /\ files' = files
            /\ \A d \in Conns \ {c} : ConnState(d)' = ConnState(d)

\* C13: a failure inside the task of one connection (an Err from parse, a
\* panic, a failing write, a failing filesystem call) changes nothing outside
\* that connection, and in every state after it the accept loop still accepts
\* and the other tasks still run and answer.
C13_FailureIsolated == []C13_LoopAlive /\ [][C13_FailureStaysInside]_vars

\* C13 witness: the task of connection 1 has panicked on a request line of two
\* tokens and connection 2, accepted next to it, is answered 200.
C13_Witness ==
    /\ mainpc = "loop"
    /\ pc[1] = "done" /\ result[1] = "panic"
    /\ Answered(2)
    /\ req[2].path = EchoPrefix \o <<"a">>
    /\ WireStatus(wire[2]) = 200

\* C14 (as claimed): once the listener is bound (main is past bind), no step
\* changes the Config.
C14_FrozenSinceBind == [][mainpc # "start" => config' = config]_vars

\* The Config does not change once main is in its accept loop or has left it.
ConfigFrozenInLoop == mainpc \in {"loop", "exit"} => config' = config

\* Every connection task holds the Config of main.
TasksSeeConfig == \A c \in Conns : pc[c] # "idle" => cfg[c] = config

\* C14 (amended): the Config is never mutated once main has entered its
\* accept loop, and every connection task sees that value; between bind and
\* the loop the argument loop may still set static_files.
C14_FrozenSinceLoop == []TasksSeeConfig /\ [][ConfigFrozenInLoop]_vars

\* C14 witness: with --directory given, two tasks run with the Config of main,
\* which differs from the Config the listener was bound with.
C14_Witness ==
    /\ mainpc = "loop"
    /\ config # DefaultConfig
    /\ \A c \in Conns : InTask(c) /\ cfg[c] = config

\* Connections c and d were sent the same bytes, no static-file root is
\* configured, and both have their whole response.
SameRequestNoRoot(c, d) ==
    /\ c # d
    /\ Answered(c) /\ Answered(d)
    /\ sent[c] = sent[d]
    /\ cfg[c].static_files = None /\ cfg[d].static_files = None

WireHeaderSet(w) == {WireHeaderLines(w)[i] : i \in DOMAIN WireHeaderLines(w)}

\* C15 (as claimed): with no static-file root, the same request on two
\* connections yields byte-identical responses.
C15_ByteIdentical ==
    \A c, d \in Conns : SameRequestNoRoot(c, d) => wire[c] = wire[d]

\* C15 (amended): with no static-file root, the same request on two
\* connections yields the same status line, the same set of header lines, the
\* same number of bytes and the same body; the responses are byte-identical
\* when the response carries at most one header besides Content-Length.
C15_SameUpToHeaderOrder ==
    \A c, d \in Conns :
        SameRequestNoRoot(c, d) =>
            /\ WireLines(wire[c])[1] = WireLines(wire[d])[1]
            /\ WireHeaderSet(wire[c]) = WireHeaderSet(wire[d])
            /\ Len(wire[c]) = Len(wire[d])
            /\ WireBody(wire[c]) = WireBody(wire[d])
            /\ Cardinality(WireHeaderSet(wire[c])) <= 2 => wire[c] = wire[d]

\* C15 witness: GET /echo/a with Accept-Encoding: gzip is answered on two
\* connections with Content-Type and Content-Encoding in different orders.
C15_Witness ==
    \E c, d \in Conns :
        /\ SameRequestNoRoot(c, d)
        /\ req[c].path = EchoPrefix \o <<"a">>
        /\ Cardinality(WireHeaderSet(wire[c])) = 3
        /\ wire[c] # wire[d]

\* Connections c and d were sent the same bytes under the same Config and
\* both have their whole response.
SameRequestSameConfig(c, d) ==
    /\ c # d
    /\ Answered(c) /\ Answered(d)
    /\ sent[c] = sent[d]
    /\ cfg[c] = cfg[d]

\* C16 (as claimed): the response on a connection is determined by its own
\* request and the Config: the same request under the same Config has the
\* same status line and the same body on every connection, whatever the
\* other connections do.
C16_OwnRequestDecides ==
    \A c, d \in Conns :
        SameRequestSameConfig(c, d) =>
            /\ WireLines(wire[c])[1] = WireLines(wire[d])[1]
            /\ WireBody(wire[c]) = WireBody(wire[d])

\* No step changes the state of two connections, and a step that changes
\* the state of a connection leaves the Config as it was.
OneConnectionPerStep ==
    \A c \in Conns :
        ConnState(c)' # ConnState(c) =>
            /\ config' = config
            /\ \A d \in Conns \ {c} : ConnState(d)' = ConnState(d)

\* Outside a GET of /files/ with a root, the same request under the same
\* Config has the same status line, header lines and body on every connection.
OwnRequestDecidesOutsideFiles ==
    \A c, d \in Conns :
        (SameRequestSameConfig(c, d) /\ ~(FilesRequest(c) /\ req[c].method = "Get")) =>
            /\ WireLines(wire[c])[1] = WireLines(wire[d])[1]
            /\ WireHeaderSet(wire[c]) = WireHeaderSet(wire[d])
            /\ WireBody(wire[c]) = WireBody(wire[d])

\* C16 (amended): connections share no state in memory other than the
\* Config, which no task changes; the files under the static-file root are
\* shared, so only the response to a GET of /files/ with a root depends on
\* what other connections have written.
C16_SharedOnlyThroughFiles == []OwnRequestDecidesOutsideFiles /\ [][OneConnectionPerStep]_vars

\* C16 witness: the same GET /files/f is answered 404 on one connection and
\* 200 on another, a POST to /files/f having been handled in between.
C16_Witness ==
    \E c, d \in Conns :
        /\ SameRequestSameConfig(c, d)
        /\ FilesRequest(c) /\ req[c].method = "Get"
        /\ WireStatus(wire[c]) = 404
        /\ WireStatus(wire[d]) = 200

\* What the client sent up to and including the blank line (everything, when
\* there is no blank line), and what it sent after it.
SentHead(c) ==
    LET i == Find(sent[c], CRLF \o CRLF)
    IN  IF i = 0 THEN sent[c] ELSE SubSeq(sent[c], 1, i + 3)
SentAfterHead(c) == SubSeq(sent[c], Len(SentHead(c)) + 1, Len(sent[c]))

\* The length the client declared: the last value sent under the exact name
\* Content-Length when it is a string of digits, 0 otherwise.
DeclaredLength(c) ==
    LET v == SentValues(c, ContentLength)
    IN  IF v = <<>> THEN 0
        ELSE LET last == v[Len(v)][1]
             IN  IF last # <<>> /\ \A k \in DOMAIN last : IsDigit(last[k])
                 THEN DecimalValue(last, 0) ELSE 0

\* The task of c is past parse and the head it was sent is UTF-8.
ParsedTextHead(c) == pc[c] \notin {"idle", "parse"} /\ IsUtf8(SentHead(c))

\* C17: a parsed POST or PUT has as its body exactly the first N bytes after
\* the blank line, N being the declared Content-Length (0 when missing or not
\* numeric), and leaves the rest unread; a POST or PUT with fewer than N bytes
\* after the blank line does not parse; a parsed GET has an empty body and
\* leaves everything after the blank line unread, Content-Length or not.
C17_BodyRead ==
    \A c \in Conns :
        ParsedTextHead(c) =>
            LET N == DeclaredLength(c)
                after == SentAfterHead(c)
            IN  /\ (req[c] # NoRequest /\ req[c].method \in {"Post", "Put"}) =>
                       /\ Len(after) >= N
                       /\ req[c].body = SubSeq(after, 1, N)
                       /\ stream[c] = SubSeq(after, N + 1, Len(after))
                /\ (req[c] # NoRequest /\ req[c].method = "Get") =>
                       /\ req[c].body = <<>>
                       /\ stream[c] = after
                /\ ((StartsWith(sent[c], POST \o <<SP>>) \/ StartsWith(sent[c], PUT \o <<SP>>))
                        /\ Len(after) < N) =>
                       /\ req[c] = NoRequest
                       /\ result[c] = "err"

\* C17 witness: a parsed GET that was sent Content-Length: 2 and the bytes
\* "hi" has an empty body and "hi" is still unread.
C17_Witness ==
    \E c \in Conns :
        /\ ParsedTextHead(c)
        /\ req[c].method = "Get"
        /\ DeclaredLength(c) = 2
        /\ req[c].body = <<>>
        /\ stream[c] = TextHi

\* The names of the header lines the client sent up to the blank line or the
\* end of what it sent: what stands before the first ": " of each.
SentNames(c) ==
    {SubSeq(SentHeaderLines(c)[i], 1, Find(SentHeaderLines(c)[i], <<":", " ">>) - 1) :
         i \in DOMAIN SentHeaderLines(c)}

\* The client sent a GET and closed its side before any blank line.
TruncatedGet(c) ==
    /\ ParsedTextHead(c)
    /\ StartsWith(sent[c], GET \o <<SP>>)
    /\ Find(sent[c], CRLF \o CRLF) = 0

\* C18: a parsed request has exactly the headers of the lines before the
\* first blank line, or before the end of input when there is none, each with
\* the last value sent; a GET cut off before the blank line parses, nothing is
\* left unread, it gets to send(), and its whole response is one that the
\* same request with the blank line gets.
C18_HeaderLoopEnds ==
    \A c \in Conns :
        /\ (ParsedTextHead(c) /\ req[c] # NoRequest) =>
               /\ DOMAIN req[c].headers = SentNames(c)
               /\ \A n \in SentNames(c) :
                      req[c].headers[n] = SentValues(c, n)[Len(SentValues(c, n))][1]
        /\ TruncatedGet(c) =>
               /\ req[c] # NoRequest
               /\ req[c] = Parse(sent[c] \o CRLF).req
               /\ stream[c] = <<>>
               /\ pc[c] = "done" =>
                      /\ result[c] \in {"ok", "err"}
                      /\ events[c] = <<"parse", "send">>
               /\ Answered(c) =>
                      \E order \in Orders(DOMAIN resp[c].headers) :
                          wire[c] = Flatten(SendChunks(
                                        AppendOwnHeaders(
                                            Dispatch(Parse(sent[c] \o CRLF).req, cfg[c]).resp,
                                            Parse(sent[c] \o CRLF).req),
                                        order))

\* C18 witness: GET /user-agent with the line User-Agent: a and no blank line
\* after it is answered 200 with body "a".
C18_Witness ==
    \E c \in Conns :
        /\ TruncatedGet(c)
        /\ Answered(c)
        /\ SentNames(c) = {UserAgent}
        /\ WireStatus(wire[c]) = 200
        /\ WireBody(wire[c]) = <<"a">>

\* The file R/E that the request of connection c names: the root, "/", and
\* the path without its prefix /files/.
NamedFile(c) ==
    cfg[c].static_files[1] \o <<"/">>
        \o SubSeq(req[c].path, Len(FilesPrefix) + 1, Len(req[c].path))

\* A step that changes the files is the write of a task whose request is a
\* POST to a path that starts with /files/ under a Config with a root; after
\* it the file R/E holds the request body and every other file is as before.
OnlyPostWrites ==
    files' # files =>
        \E c \in Conns :
            /\ pc[c] = "write" /\ pc'[c] = "send"
            /\ req[c].method = "Post"
            /\ StartsWith(req[c].path, FilesPrefix)
            /\ cfg[c].static_files # None
            /\ DOMAIN files' = DOMAIN files \cup {NamedFile(c)}
            /\ files'[NamedFile(c)] = req[c].body
            /\ \A p \in DOMAIN files : p # NamedFile(c) => files'[p] = files[p]

\* C19: the files change only in the write of a POST to /files/E with a root,
\* and only the file R/E; every other step leaves every file unchanged.
C19_FilesFrame == [][OnlyPostWrites]_vars

\* C19 witness: a POST has just created its file with its body and is about
\* to send 201, the file that was there before being unchanged.
C19_Witness ==
    \E c \in Conns :
        /\ pc[c] = "send"
        /\ req[c].method = "Post"
        /\ resp[c].status = 201
        /\ req[c].body # <<>>
        /\ NamedFile(c) \in DOMAIN files
        /\ files[NamedFile(c)] = req[c].body
        /\ Cardinality(DOMAIN files) = 2

\* C20: whenever a task is about to call send() the status of the response
\* is one of 200, 201, 400, 404, 500; no task that got as far as send() has
\* panicked, and a task that has panicked has made no call but parse.
C20_StatusKnown ==
    \A c \in Conns :
        /\ pc[c] = "send" => resp[c].status \in {200, 201, 400, 404, 500}
        /\ SeqContains(events[c], "send") => result[c] # "panic"
        /\ result[c] = "panic" => events[c] = <<"parse">>

\* C20 witness: a PUT to /files/f with a root is about to be answered 400.
C20_Witness ==
    \E c \in Conns :
        /\ pc[c] = "send"
        /\ req[c].method = "Put"
        /\ FilesRequest(c)
        /\ resp[c].status = 400

====
